---- MODULE Spec2Model ----
(***************************************************************************)
(* Model of nuon-ext-policies: the boundary comparator                     *)
(* (boundaries.py), the overlap detector (overlap.py) and the two click    *)
(* commands that drive them.                                               *)
(*                                                                         *)
(* Python strings that the code inspects character by character (action    *)
(* strings, effects) are sequences of one-character strings; dictionaries  *)
(* are sequences of entries in insertion order; Python sets are TLA+ sets  *)
(* whose iteration order is a parameter (the interpreter's hash order).    *)
(***************************************************************************)
EXTENDS Integers, Sequences, FiniteSets, TLC

VARIABLES
    boundaries,   \* compare_boundaries' argument: <<[name, data]>> in dict order
    hashOrder,    \* iteration order of string sets in this interpreter process
    findings,     \* the list compare_boundaries returned
    findings2,    \* the list a second process returned for the same input
    findingsP,    \* the list returned for the same mapping in another dict order
    reordered,    \* that other mapping
    pc,
    command,        \* the click command invoked
    output,         \* --output
    permDir,        \* whether <app_dir>/permissions is a directory
    bfiles,         \* boundary name -> its *_boundary.json file
    tomlState,      \* the permission TOML: "missing", "malformed" or "ok"
    policiesConfig, \* the [[policies]] blocks of the TOML: their contents paths
    pfiles,         \* file name -> the policy JSON file of that name
    idx,            \* position of the loading loop
    policies,       \* check_overlap's policies dict
    overlaps,       \* what find_overlaps returned
    ran,            \* whether the comparison (comparator or detector) was called
    uncaught,       \* whether the process died of an uncaught exception
    exitCode        \* the process's exit code, -1 while it runs

cmpVars == <<boundaries, hashOrder, findings, findings2, findingsP, reordered, pc>>

cliVars == <<command, output, permDir, bfiles, tomlState, policiesConfig, pfiles, idx,
             policies, overlaps, ran, uncaught, exitCode>>

vars == <<cmpVars, cliVars>>

----------------------------------------------------------------------------
(* Bounds *)

\* largest number of boundaries in a mapping handed to compare_boundaries
MaxBoundaries == 4

\* largest number of [[policies]] blocks in a permission TOML
MaxPolicies == 3

----------------------------------------------------------------------------
(* Strings *)

Allow == <<"A", "l", "l", "o", "w">>
Deny == <<"D", "e", "n", "y">>

\* str.lower() on one character
Lower(c) ==
    CASE c = "S" -> "s"
      [] c = "T" -> "t"
      [] c = "P" -> "p"
      [] c = "A" -> "a"
      [] c = "D" -> "d"
      [] OTHER -> c

\* code point of a character: Python orders strings by code point
Ord(c) ==
    CASE c = "3" -> 51
      [] c = ":" -> 58
      [] c = "A" -> 65
      [] c = "D" -> 68
      [] c = "P" -> 80
      [] c = "S" -> 83
      [] c = "T" -> 84
      [] c = "a" -> 97
      [] c = "d" -> 100
      [] c = "e" -> 101
      [] c = "l" -> 108
      [] c = "n" -> 110
      [] c = "o" -> 111
      [] c = "p" -> 112
      [] c = "s" -> 115
      [] c = "t" -> 116
      [] c = "w" -> 119
      [] c = "y" -> 121

LowerStr(s) == [i \in 1..Len(s) |-> Lower(s[i])]

RECURSIVE StrLess(_, _)
\* a < b for Python strings
StrLess(a, b) ==
    IF a = <<>> THEN b # <<>>
    ELSE IF b = <<>> THEN FALSE
    ELSE IF Ord(a[1]) # Ord(b[1]) THEN Ord(a[1]) < Ord(b[1])
    ELSE StrLess(Tail(a), Tail(b))

\* index of the first ":" of a string, 0 when there is none
ColonIndex(s) ==
    IF \E i \in 1..Len(s) : s[i] = ":"
    THEN CHOOSE i \in 1..Len(s) : s[i] = ":" /\ \A j \in 1..(i - 1) : s[j] # ":"
    ELSE 0

normalize_action(action) ==
    LET i == ColonIndex(action) IN
    IF i > 0
    THEN LowerStr(SubSeq(action, 1, i - 1)) \o <<":">> \o SubSeq(action, i + 1, Len(action))
    ELSE LowerStr(action)

----------------------------------------------------------------------------
(* Helpers for insertion-ordered dictionaries and set iteration *)

Range(s) == {s[i] : i \in 1..Len(s)}

\* for x in S: the elements of S in the interpreter's hash order
SetIter(S, order) == SelectSeq(order, LAMBDA a : a \in S)

Keys(d) == [i \in 1..Len(d) |-> d[i].key]

HasKey(d, k) == \E i \in 1..Len(d) : d[i].key = k

KeyIndex(d, k) == CHOOSE i \in 1..Len(d) : d[i].key = k

\* d[k] = v : a new key goes last, an existing key keeps its place
DictSet(d, k, v) ==
    IF HasKey(d, k)
    THEN [d EXCEPT ![KeyIndex(d, k)] = [key |-> k, val |-> v]]
    ELSE Append(d, [key |-> k, val |-> v])

DictGet(d, k) == d[KeyIndex(d, k)].val

----------------------------------------------------------------------------
(* boundaries.py: the comparator *)

\* stmt.get("Effect", "Allow")
StmtEffect(stmt) == IF stmt.hasEffect THEN stmt.Effect ELSE Allow

\* stmt.get("Action", []), a single string wrapped into a list
StmtActions(stmt) == IF stmt.isStr THEN <<stmt.Action>> ELSE stmt.Action

RECURSIVE ExpandFrom(_, _, _)
ExpandFrom(statements, i, by_effect) ==
    IF i > Len(statements) THEN by_effect
    ELSE LET effect == StmtEffect(statements[i])
             actions == StmtActions(statements[i])
             old == IF HasKey(by_effect, effect) THEN DictGet(by_effect, effect) ELSE {}
         IN ExpandFrom(statements, i + 1,
                       IF actions = <<>> THEN by_effect
                       ELSE DictSet(by_effect, effect, old \cup Range(actions)))

\* effect -> set of actions, effects in the order they first received an action
expand_actions(statements) == ExpandFrom(statements, 1, <<>>)

\* data.get("Statement", [])
DataStatements(data) == IF data.hasStatement THEN data.Statement ELSE <<>>

RECURSIVE EffectWrites(_, _, _)
\* lines 59-62 for one boundary: the assignments to action_map, in order
EffectWrites(name, effects, order) ==
    IF effects = <<>> THEN <<>>
    ELSE LET actions == SetIter(Head(effects).val, order) IN
         [i \in 1..Len(actions) |->
             [norm |-> normalize_action(actions[i]), effect |-> Head(effects).key,
              name |-> name, action |-> actions[i]]]
         \o EffectWrites(name, Tail(effects), order)

RECURSIVE AllWrites(_, _)
\* lines 58-62: the assignments of every boundary, in dict order
AllWrites(all_actions, order) ==
    IF all_actions = <<>> THEN <<>>
    ELSE EffectWrites(Head(all_actions).key, Head(all_actions).val, order)
         \o AllWrites(Tail(all_actions), order)

RECURSIVE ApplyWrites(_, _)
\* action_map[(norm, effect)][name] = action, for each assignment
ApplyWrites(action_map, writes) ==
    IF writes = <<>> THEN action_map
    ELSE LET w == Head(writes)
             k == <<w.norm, w.effect>>
             present_in == IF HasKey(action_map, k) THEN DictGet(action_map, k) ELSE <<>>
         IN ApplyWrites(DictSet(action_map, k, DictSet(present_in, w.name, w.action)),
                        Tail(writes))

\* (norm1, effect1) < (norm2, effect2) for Python tuples of strings
KeyLess(k1, k2) ==
    \/ StrLess(k1[1], k2[1])
    \/ k1[1] = k2[1] /\ StrLess(k1[2], k2[2])

RECURSIVE InsertSorted(_, _)
InsertSorted(sorted, item) ==
    IF sorted = <<>> THEN <<item>>
    ELSE IF KeyLess(item.key, Head(sorted).key) THEN <<item>> \o sorted
    ELSE <<Head(sorted)>> \o InsertSorted(Tail(sorted), item)

\* the items left in insertion order
SortedItemsUnsorted(items) == items

RECURSIVE SortedItems(_)
\* sorted(action_map.items()): the keys are distinct, so they alone decide
SortedItems(items) ==
    IF items = <<>> THEN <<>>
    ELSE InsertSorted(SortedItems(SubSeq(items, 1, Len(items) - 1)), items[Len(items)])

AlphabeticalNames ==
    <<"audit", "breakglass", "deprovision", "maintenance", "provision", "staging">>

\* sorted(set(boundary_names) - set(present_in))
MissingFromSorted(boundary_names, present_in) ==
    SelectSeq(AlphabeticalNames,
              LAMBDA b : b \in Range(boundary_names) /\ ~HasKey(present_in, b))

MissingFrom(boundary_names, present_in) ==
    SelectSeq(boundary_names, LAMBDA b : ~HasKey(present_in, b))

\* the test without its deprovision conjunct
MaintenanceOnlyNoDeprovision(present_in) ==
    /\ HasKey(present_in, "maintenance")
    /\ ~HasKey(present_in, "provision")

MaintenanceOnly(present_in) ==
    /\ HasKey(present_in, "maintenance")
    /\ ~HasKey(present_in, "provision")
    /\ ~HasKey(present_in, "deprovision")

BreakglassOnly(present_in) == Range(Keys(present_in)) = {"breakglass"}

Severity(present_in) ==
    IF MaintenanceOnly(present_in) THEN "high"
    ELSE IF BreakglassOnly(present_in) THEN "low" ELSE "medium"

Note(present_in, missing_from) ==
    IF MaintenanceOnly(present_in)
    THEN "Maintenance allows this but provision/deprovision do not!"
    ELSE IF BreakglassOnly(present_in)
    THEN "Breakglass-only (expected for emergency access)"
    ELSE IF "provision" \in Range(missing_from) \/ "deprovision" \in Range(missing_from)
    THEN "Missing from core lifecycle boundaries"
    ELSE ""

\* lines 79-98: the finding of one action_map item
Finding(item, boundary_names) ==
    LET present_in == item.val
        missing_from == MissingFrom(boundary_names, present_in)
    IN [action |-> present_in[1].val,
        normalized |-> item.key[1],
        effect |-> item.key[2],
        present_in |-> Keys(present_in),
        missing_from |-> missing_from,
        severity |-> Severity(present_in),
        note |-> Note(present_in, missing_from)]

\* the loop without its "continue"
KeptItemsAll(action_map, boundary_names) == SortedItems(action_map)

\* lines 66-70: the items in sorted order, those missing from no boundary skipped
KeptItems(action_map, boundary_names) ==
    SelectSeq(SortedItems(action_map),
              LAMBDA item : MissingFrom(boundary_names, item.val) # <<>>)

compare_boundaries(bs, order) ==
    LET all_actions == [i \in 1..Len(bs) |->
                           [key |-> bs[i].key,
                            val |-> expand_actions(DataStatements(bs[i].val))]]
        action_map == ApplyWrites(<<>>, AllWrites(all_actions, order))
        boundary_names == Keys(bs)
        kept == KeptItems(action_map, boundary_names)
    IN [i \in 1..Len(kept) |-> Finding(kept[i], boundary_names)]

----------------------------------------------------------------------------
(* Inputs of the comparator *)

ActionUniverse == {<<"s", "3", ":", "P">>, <<"S", "3", ":", "P">>, <<"S", "T", "S">>}

\* the strings of ActionUniverse by code point
ActionsAscending == <<<<"S", "3", ":", "P">>, <<"S", "T", "S">>, <<"s", "3", ":", "P">>>>

Reverse(s) == [i \in 1..Len(s) |-> s[Len(s) + 1 - i]]

\* Iteration orders of string sets under different hash seeds.  No set a
\* document below yields has more than two strings, so these two orders give
\* every such set each of its iteration orders.
HashOrders == {ActionsAscending, Reverse(ActionsAscending)}

\* {"Statement": []}
EmptyDoc == [hasStatement |-> TRUE, Statement |-> <<>>]

\* {"Statement": [{"Effect": "Allow", "Action": "s3:P"}]}
DocPut ==
    [hasStatement |-> TRUE,
     Statement |-> <<[hasEffect |-> TRUE, Effect |-> Allow, isStr |-> TRUE,
                      Action |-> <<"s", "3", ":", "P">>]>>]

\* {"Statement": [{"Effect": "Deny", "Action": ["STS", "s3:P"]},
\*                {"Action": ["S3:P", "s3:P"]}]}
DocMixed ==
    [hasStatement |-> TRUE,
     Statement |-> <<[hasEffect |-> TRUE, Effect |-> Deny, isStr |-> FALSE,
                      Action |-> << <<"S", "T", "S">>, <<"s", "3", ":", "P">> >>],
                     [hasEffect |-> FALSE, Effect |-> <<>>, isStr |-> FALSE,
                      Action |-> << <<"S", "3", ":", "P">>, <<"s", "3", ":", "P">> >>]>>]

BoundaryDocs == {EmptyDoc, DocPut, DocMixed}

BoundaryNames ==
    {"provision", "deprovision", "maintenance", "breakglass", "staging", "audit"}

\* the orders in which k distinct boundary names can be inserted into a dict
\* The comparator knows neither "staging" nor "audit", so two mappings that
\* differ by exchanging them behave alike: "audit" is supplied only after "staging".
NameOrders(k) ==
    {f \in [1..k -> BoundaryNames] :
        /\ \A i, j \in 1..k : i # j => f[i] # f[j]
        /\ \A j \in 1..k : f[j] = "audit" => \E i \in 1..(j - 1) : f[i] = "staging"}

\* the dict holding names[i] -> docs[i], inserted in that order
Mapping(names, docs) == [i \in 1..Len(names) |-> [key |-> names[i], val |-> docs[i]]]

----------------------------------------------------------------------------
(* overlap.py: the detector *)

\* statement.get("Sid", "unnamed")
StmtSid(statement) == IF statement.hasSid THEN statement.Sid ELSE "unnamed"

RECURSIVE ExtractFrom(_, _, _)
ExtractFrom(statements, i, actions_by_sid) ==
    IF i > Len(statements) THEN actions_by_sid
    ELSE ExtractFrom(statements, i + 1,
                     DictSet(actions_by_sid, StmtSid(statements[i]),
                             Range(StmtActions(statements[i]))))

\* sid -> set of actions: actions_by_sid[sid] = set(actions) per statement
extract_actions(policy) == ExtractFrom(DataStatements(policy), 1, <<>>)

RECURSIVE SidSources(_, _, _)
\* the (policy_name, sid) entries one policy appends for an action
SidSources(policy_name, sids, action) ==
    IF sids = <<>> THEN <<>>
    ELSE (IF action \in Head(sids).val THEN << <<policy_name, Head(sids).key>> >> ELSE <<>>)
         \o SidSources(policy_name, Tail(sids), action)

RECURSIVE ActionSources(_, _)
\* lines 45-49: action_sources[action], in the order of its appends
ActionSources(ps, action) ==
    IF ps = <<>> THEN <<>>
    ELSE SidSources(Head(ps).key, Head(ps).val, action) \o ActionSources(Tail(ps), action)

RECURSIVE PairsWithAll(_, _)
\* the same without the test p1 != p2
PairsWithAll(first, rest) ==
    IF rest = <<>> THEN <<>>
    ELSE << <<first[1], first[2], Head(rest)[1], Head(rest)[2]>> >>
         \o PairsWithAll(first, Tail(rest))

RECURSIVE PairsWith(_, _)
\* lines 58-60 for one source: its pairs with the later sources of other policies
PairsWith(first, rest) ==
    IF rest = <<>> THEN <<>>
    ELSE (IF first[1] # Head(rest)[1]
          THEN << <<first[1], first[2], Head(rest)[1], Head(rest)[2]>> >> ELSE <<>>)
         \o PairsWith(first, Tail(rest))

RECURSIVE Pairs(_)
\* lines 56-60
Pairs(sources) ==
    IF sources = <<>> THEN <<>>
    ELSE PairsWith(Head(sources), Tail(sources)) \o Pairs(Tail(sources))

\* every action some statement of some policy holds
PolicyActions(ps) ==
    UNION {UNION {ps[i].val[j].val : j \in 1..Len(ps[i].val)} : i \in 1..Len(ps)}

\* lines 52-55: more than one source, of more than one policy
Qualifies(sources) ==
    /\ Len(sources) > 1
    /\ Cardinality({sources[i][1] : i \in 1..Len(sources)}) > 1

\* action -> list of (policy1, sid1, policy2, sid2)
find_overlaps(ps) ==
    LET reported == {a \in PolicyActions(ps) :
                        /\ Qualifies(ActionSources(ps, a))
                        /\ Pairs(ActionSources(ps, a)) # <<>>}
    IN [a \in reported |-> Pairs(ActionSources(ps, a))]

----------------------------------------------------------------------------
(* The files the commands read *)

MissingFile == [exists |-> FALSE, parses |-> FALSE, data |-> EmptyDoc]

\* a file whose content json.load rejects
MalformedFile == [exists |-> TRUE, parses |-> FALSE, data |-> EmptyDoc]

GoodFile(d) == [exists |-> TRUE, parses |-> TRUE, data |-> d]

\* boundary_files, in the order of the dict literal
BoundaryFileOrder == <<"provision", "deprovision", "maintenance", "breakglass">>

\* {} : a JSON object without "Statement"
NoStatementDoc == [hasStatement |-> FALSE, Statement |-> <<>>]

BoundaryFileStates ==
    {MissingFile, MalformedFile} \cup {GoodFile(d) : d \in BoundaryDocs \cup {NoStatementDoc}}

\* {"Statement": [{"Sid": "Read", "Action": ["s3:Get", "s3:List"]},
\*                {"Sid": "Write", "Action": "s3:Get"}]}
PolicyTwoSids ==
    [hasStatement |-> TRUE,
     Statement |-> <<[hasSid |-> TRUE, Sid |-> "Read", isStr |-> FALSE,
                      Action |-> <<"s3:Get", "s3:List">>],
                     [hasSid |-> TRUE, Sid |-> "Write", isStr |-> TRUE,
                      Action |-> "s3:Get"]>>]

\* {"Statement": [{"Action": "s3:Get"}, {"Action": ["s3:Put", "s3:List"]}]}
PolicyNoSids ==
    [hasStatement |-> TRUE,
     Statement |-> <<[hasSid |-> FALSE, Sid |-> "", isStr |-> TRUE,
                      Action |-> "s3:Get"],
                     [hasSid |-> FALSE, Sid |-> "", isStr |-> FALSE,
                      Action |-> <<"s3:Put", "s3:List">>]>>]

PolicyDocs == {PolicyTwoSids, PolicyNoSids, NoStatementDoc}

PolicyFileNames == {"a.json", "b.json", "c.json"}

PolicyFileStates == {MissingFile, MalformedFile} \cup {GoodFile(d) : d \in PolicyDocs}

Commands == {"check-boundaries", "check-overlap"}

\* no command is running: the state of the variables the commands use
CliIdle ==
    /\ command = "none"
    /\ output = "text"
    /\ permDir = FALSE
    /\ bfiles = [n \in Range(BoundaryFileOrder) |-> MissingFile]
    /\ tomlState = "missing"
    /\ policiesConfig = <<>>
    /\ pfiles = [n \in PolicyFileNames |-> MissingFile]
    /\ idx = 0
    /\ policies = <<>>
    /\ overlaps = <<>>
    /\ ran = FALSE
    /\ uncaught = FALSE
    /\ exitCode = -1

----------------------------------------------------------------------------
(* The comparator applied to a mapping *)

InitCompare ==
    /\ \E k \in 0..MaxBoundaries :
          \E names \in NameOrders(k), docs \in [1..k -> BoundaryDocs] :
             boundaries = Mapping(names, docs)
    /\ hashOrder = <<>>
    /\ findings = <<>>
    /\ findings2 = <<>>
    /\ findingsP = <<>>
    /\ reordered = <<>>
    /\ pc = "start"
    /\ CliIdle

\* A Python process starts (its hash seed fixes the iteration order of string
\* sets) and calls compare_boundaries(boundaries).
Compare ==
    /\ pc = "start"
    /\ \E order \in HashOrders :
          /\ hashOrder' = order
          /\ findings' = compare_boundaries(boundaries, order)
    /\ pc' = "compared"
    /\ UNCHANGED <<boundaries, findings2, findingsP, reordered, cliVars>>

NextCompare == Compare

SpecCompare == InitCompare /\ [][NextCompare]_vars

\* A second process, with a hash seed of its own, compares the same mapping.
Rerun ==
    /\ pc = "compared"
    /\ \E order \in HashOrders : findings2' = compare_boundaries(boundaries, order)
    /\ pc' = "rerun"
    /\ UNCHANGED <<boundaries, hashOrder, findings, findingsP, reordered, cliVars>>

\* the mapping with the entries at i and i + 1 inserted in the other order
SwapAdjacent(bs, i) ==
    [j \in 1..Len(bs) |-> IF j = i THEN bs[i + 1] ELSE IF j = i + 1 THEN bs[i] ELSE bs[j]]

\* The same process compares the same boundaries inserted in another order.
\* Exchanging two neighbours is enough: every other order is a chain of these.
Reorder ==
    /\ pc = "compared"
    /\ \E i \in 1..(Len(boundaries) - 1) :
          /\ reordered' = SwapAdjacent(boundaries, i)
          /\ findingsP' = compare_boundaries(SwapAdjacent(boundaries, i), hashOrder)
    /\ pc' = "reordered"
    /\ UNCHANGED <<boundaries, hashOrder, findings, findings2, cliVars>>

NextRuns == Compare \/ Rerun \/ Reorder

SpecRuns == InitCompare /\ [][NextRuns]_vars

----------------------------------------------------------------------------
(* The commands *)

InitCli ==
    /\ boundaries = <<>>
    /\ hashOrder = <<>>
    /\ findings = <<>>
    /\ findings2 = <<>>
    /\ findingsP = <<>>
    /\ reordered = <<>>
    /\ pc = "cli_start"
    /\ command \in Commands
    /\ output \in {"text", "json"}
    /\ idx = 0
    /\ policies = <<>>
    /\ overlaps = <<>>
    /\ ran = FALSE
    /\ uncaught = FALSE
    /\ exitCode = -1
    /\ IF command = "check-boundaries"
       THEN /\ permDir \in BOOLEAN
            /\ bfiles \in [Range(BoundaryFileOrder) -> BoundaryFileStates]
            /\ tomlState = "missing"
            /\ policiesConfig = <<>>
            /\ pfiles = [n \in PolicyFileNames |-> MissingFile]
       ELSE /\ permDir = TRUE
            /\ bfiles = [n \in Range(BoundaryFileOrder) |-> MissingFile]
            /\ tomlState \in {"missing", "malformed", "ok"}
            /\ \E k \in 0..MaxPolicies : policiesConfig \in [1..k -> PolicyFileNames]
            /\ pfiles \in [PolicyFileNames -> PolicyFileStates]

\* sys.exit(code), or the command function returning (code 0)
Exit(code) ==
    /\ exitCode' = code
    /\ pc' = "exited"

\* an exception nothing catches: traceback, exit code 1
Uncaught ==
    /\ uncaught' = TRUE
    /\ Exit(1)

\* boundaries.py lines 135-141: the process starts; no permissions/ is fatal
CbStart ==
    /\ pc = "cli_start"
    /\ command = "check-boundaries"
    /\ \E order \in HashOrders : hashOrder' = order
    /\ IF ~permDir
       THEN Exit(1) /\ UNCHANGED idx
       ELSE pc' = "cb_load" /\ idx' = 1 /\ UNCHANGED exitCode
    /\ UNCHANGED <<boundaries, findings, findings2, findingsP, reordered, command, output,
                   permDir, bfiles, tomlState, policiesConfig, pfiles, policies, overlaps,
                   ran, uncaught>>

\* lines 156-167, one iteration: load_boundary raises on a file json.load rejects
CbLoad ==
    /\ pc = "cb_load"
    /\ idx <= Len(BoundaryFileOrder)
    /\ LET name == BoundaryFileOrder[idx]
           file == bfiles[name]
       IN IF ~file.exists
          THEN idx' = idx + 1 /\ UNCHANGED <<boundaries, pc, uncaught, exitCode>>
          ELSE IF file.parses
          THEN /\ boundaries' = DictSet(boundaries, name, file.data)
               /\ idx' = idx + 1
               /\ UNCHANGED <<pc, uncaught, exitCode>>
          ELSE Uncaught /\ UNCHANGED <<boundaries, idx>>
    /\ UNCHANGED <<hashOrder, findings, findings2, findingsP, reordered, command, output,
                   permDir, bfiles, tomlState, policiesConfig, pfiles, policies, overlaps,
                   ran>>

\* line 172
CbCompare ==
    /\ pc = "cb_load"
    /\ idx > Len(BoundaryFileOrder)
    /\ findings' = compare_boundaries(boundaries, hashOrder)
    /\ ran' = TRUE
    /\ pc' = "cb_report"
    /\ UNCHANGED <<boundaries, hashOrder, findings2, findingsP, reordered, command, output,
                   permDir, bfiles, tomlState, policiesConfig, pfiles, idx, policies,
                   overlaps, uncaught, exitCode>>

\* by_severity[severity], lines 189-191
BySeverity(fs, severity) == SelectSeq(fs, LAMBDA f : f.severity = severity)

\* line 178
ExitCodeJson(fs) == IF \E i \in 1..Len(fs) : fs[i].severity = "high" THEN 1 ELSE 0

\* the text exit code of a command that fails on any finding
ExitCodeTextAnyFinding(fs) == IF fs = <<>> THEN 0 ELSE 1

\* lines 180-217: return on no findings, else 1 when the high table is printed
ExitCodeText(fs) ==
    IF fs = <<>> THEN 0
    ELSE IF BySeverity(fs, "high") # <<>> THEN 1 ELSE 0

\* lines 174-217
CbReport ==
    /\ pc = "cb_report"
    /\ Exit(IF output = "json" THEN ExitCodeJson(findings) ELSE ExitCodeText(findings))
    /\ UNCHANGED <<boundaries, hashOrder, findings, findings2, findingsP, reordered,
                   command, output, permDir, bfiles, tomlState, policiesConfig, pfiles,
                   idx, policies, overlaps, ran, uncaught>>

\* overlap.py lines 77-95: the TOML must exist; load_toml raises on a file
\* tomli rejects; no [[policies]] block ends the command
CoStart ==
    /\ pc = "cli_start"
    /\ command = "check-overlap"
    /\ IF tomlState = "missing" THEN Exit(1) /\ UNCHANGED <<idx, uncaught>>
       ELSE IF tomlState = "malformed" THEN Uncaught /\ UNCHANGED idx
       ELSE IF policiesConfig = <<>> THEN Exit(0) /\ UNCHANGED <<idx, uncaught>>
       ELSE pc' = "co_load" /\ idx' = 1 /\ UNCHANGED <<exitCode, uncaught>>
    /\ UNCHANGED <<boundaries, hashOrder, findings, findings2, findingsP, reordered,
                   command, output, permDir, bfiles, tomlState, policiesConfig, pfiles,
                   policies, overlaps, ran>>

\* lines 112-139, one iteration: a missing file and a JSONDecodeError are skipped
CoLoad ==
    /\ pc = "co_load"
    /\ idx <= Len(policiesConfig)
    /\ LET name == policiesConfig[idx]
           file == pfiles[name]
       IN IF file.exists /\ file.parses
          THEN policies' = DictSet(policies, name, extract_actions(file.data))
          ELSE UNCHANGED policies
    /\ idx' = idx + 1
    /\ UNCHANGED <<boundaries, hashOrder, findings, findings2, findingsP, reordered, pc,
                   command, output, permDir, bfiles, tomlState, policiesConfig, pfiles,
                   overlaps, ran, uncaught, exitCode>>

\* line 145
CoFind ==
    /\ pc = "co_load"
    /\ idx > Len(policiesConfig)
    /\ overlaps' = find_overlaps(policies)
    /\ ran' = TRUE
    /\ pc' = "co_report"
    /\ UNCHANGED <<boundaries, hashOrder, findings, findings2, findingsP, reordered,
                   command, output, permDir, bfiles, tomlState, policiesConfig, pfiles,
                   idx, policies, uncaught, exitCode>>

\* lines 147-207: exit 1 on any overlap in either output mode
CoReport ==
    /\ pc = "co_report"
    /\ Exit(IF DOMAIN overlaps # {} THEN 1 ELSE 0)
    /\ UNCHANGED <<boundaries, hashOrder, findings, findings2, findingsP, reordered,
                   command, output, permDir, bfiles, tomlState, policiesConfig, pfiles,
                   idx, policies, overlaps, ran, uncaught>>

NextCli == CbStart \/ CbLoad \/ CbCompare \/ CbReport \/ CoStart \/ CoLoad \/ CoFind \/ CoReport

SpecCli == InitCli /\ [][NextCli]_vars

----------------------------------------------------------------------------
(* Properties of compare_boundaries *)

FindingKey(f) == <<f.normalized, f.effect>>

\* the (normalized action, effect) pairs a boundary document states
PairsOf(data) ==
    LET stmts == DataStatements(data) IN
    UNION {{<<normalize_action(a), StmtEffect(stmts[i])>> :
              a \in Range(StmtActions(stmts[i]))} : i \in 1..Len(stmts)}

\* the pairs of each supplied boundary
BoundaryPairs == [i \in 1..Len(boundaries) |-> PairsOf(boundaries[i].val)]

\* of the pairs the boundaries state (per boundary: pairs[i]), those that are
\* absent from some boundary
InconsistentIn(pairs) ==
    {p \in UNION Range(pairs) : \E i \in DOMAIN pairs : p \notin pairs[i]}

\* C1: compare_boundaries returns exactly one finding for each (normalized
\* action, effect) pair that occurs in some supplied boundary and is absent from
\* another, none for a pair that occurs in every boundary, and every finding
\* has a non-empty missing_from.
C1_OneFindingPerInconsistentPair ==
    pc = "compared" =>
        LET inconsistent == InconsistentIn(BoundaryPairs) IN
        /\ {FindingKey(findings[i]) : i \in 1..Len(findings)} = inconsistent
        /\ Len(findings) = Cardinality(inconsistent)
        /\ \A i \in 1..Len(findings) : findings[i].missing_from # <<>>

\* a mapping with a pair in every boundary (no finding) and an inconsistent pair
C1_Witness ==
    /\ pc = "compared"
    /\ Len(boundaries) >= 2
    /\ Len(findings) >= 1
    /\ UNION Range(BoundaryPairs) \ InconsistentIn(BoundaryPairs) # {}

RuleSeverity(present) ==
    IF "maintenance" \in present /\ "provision" \notin present
       /\ "deprovision" \notin present
    THEN "high"
    ELSE IF present = {"breakglass"} THEN "low" ELSE "medium"

RoleNames == {"provision", "deprovision", "maintenance", "breakglass"}

\* provision, deprovision and breakglass empty, maintenance allowing one action
MaintenanceExample ==
    /\ Keys(boundaries) = <<"provision", "deprovision", "maintenance", "breakglass">>
    /\ \A i \in {1, 2, 4} : PairsOf(boundaries[i].val) = {}
    /\ Cardinality(PairsOf(boundaries[3].val)) = 1
    /\ \A p \in PairsOf(boundaries[3].val) : p[2] = Allow

\* C2: the severity of every finding follows the ordered rules (high for
\* maintenance without provision and deprovision, else low for exactly
\* {breakglass}, else medium); the maintenance-only example yields exactly one
\* finding, high, missing from [provision, deprovision, breakglass]; an action
\* only in breakglass is low; with no role name supplied every finding is medium.
C2_SeverityFollowsRules ==
    pc = "compared" =>
        /\ \A i \in 1..Len(findings) :
              /\ findings[i].severity = RuleSeverity(Range(findings[i].present_in))
              /\ findings[i].present_in = <<"breakglass">> => findings[i].severity = "low"
        /\ MaintenanceExample =>
              /\ Len(findings) = 1
              /\ findings[1].severity = "high"
              /\ findings[1].missing_from = <<"provision", "deprovision", "breakglass">>
        /\ Range(Keys(boundaries)) \cap RoleNames = {} =>
              \A i \in 1..Len(findings) : findings[i].severity = "medium"

C2_Witness ==
    /\ pc = "compared"
    /\ MaintenanceExample
    /\ Len(findings) = 1
    /\ findings[1].severity = "high"

\* s lists some of the names of all, without repeats, in the order of all
InOrderOf(s, all) == s = SelectSeq(all, LAMBDA n : n \in Range(s))

\* C9: in every finding present_in and missing_from are disjoint, repeat no
\* name, together hold exactly the supplied boundary names, and each lists its
\* names in the iteration order of the boundary mapping.
C9_PresentMissingPartition ==
    pc = "compared" =>
        \A i \in 1..Len(findings) :
            LET f == findings[i] IN
            /\ Range(f.present_in) \cap Range(f.missing_from) = {}
            /\ Range(f.present_in) \cup Range(f.missing_from) = Range(Keys(boundaries))
            /\ Len(f.present_in) + Len(f.missing_from) = Len(boundaries)
            /\ InOrderOf(f.present_in, Keys(boundaries))
            /\ InOrderOf(f.missing_from, Keys(boundaries))

\* a finding with two present and two missing boundaries, supplied in an order
\* that is not alphabetical
C9_Witness ==
    /\ pc = "compared"
    /\ \E i \in 1..Len(findings) :
          /\ Len(findings[i].present_in) >= 2
          /\ Len(findings[i].missing_from) >= 2
          /\ findings[i].missing_from[1] = "provision"
          /\ findings[i].missing_from[2] = "breakglass"

\* C10: the returned list is in strictly increasing order of (normalized
\* action, effect): consecutive findings compare lower-then-higher, so no two
\* findings share a pair.
C10_SortedStrictly ==
    pc = "compared" =>
        \A i \in 1..(Len(findings) - 1) :
            LET a == FindingKey(findings[i])
                b == FindingKey(findings[i + 1])
            IN \/ StrLess(a[1], b[1])
               \/ a[1] = b[1] /\ StrLess(a[2], b[2])

\* three findings, two of them for one normalized action under both effects
C10_Witness ==
    /\ pc = "compared"
    /\ Len(findings) = 3
    /\ findings[1].normalized = findings[2].normalized
    /\ findings[1].effect = Allow
    /\ findings[2].effect = Deny

\* C3: two runs of compare_boundaries on the same input return identical
\* finding lists, field for field, the representative action included, also
\* when one boundary holds two raw actions that normalize to the same key.
C3_RunsAgree == pc = "rerun" => findings2 = findings

\* f and g are the same finding up to the order of the names in their lists
SameFinding(f, g) ==
    /\ f.normalized = g.normalized
    /\ f.effect = g.effect
    /\ f.action = g.action
    /\ f.severity = g.severity
    /\ f.note = g.note
    /\ Range(f.present_in) = Range(g.present_in)
    /\ Range(f.missing_from) = Range(g.missing_from)

\* C4: two mappings with the same boundaries in a different iteration order
\* yield the same findings: the same keys and, per key, the same representative
\* action, severity and note and the same present_in and missing_from as sets.
C4_OrderIndependent ==
    pc = "reordered" =>
        /\ \A i \in 1..Len(findings) :
              \E j \in 1..Len(findingsP) : SameFinding(findings[i], findingsP[j])
        /\ \A j \in 1..Len(findingsP) :
              \E i \in 1..Len(findings) : SameFinding(findings[i], findingsP[j])

----------------------------------------------------------------------------
(* Properties of the overlap detector and of the commands *)

\* the policy files the manifest names that exist and parse
LoadedPolicyFiles ==
    {n \in Range(policiesConfig) : pfiles[n].exists /\ pfiles[n].parses}

\* the action strings the statements of a document hold
DocActions(doc) ==
    LET stmts == DataStatements(doc) IN
    UNION {Range(StmtActions(stmts[i])) : i \in 1..Len(stmts)}

OverlapActions == {"s3:Get", "s3:List", "s3:Put"}

DetectorRan == command = "check-overlap" /\ ran

\* C5: after extract_actions and find_overlaps an action has an overlap entry
\* if and only if it occurs verbatim in a statement of two or more distinct
\* policy documents, whatever the Sids of the statements (shared, or absent).
C5_OverlapIffTwoDocuments ==
    DetectorRan =>
        \A a \in OverlapActions :
            a \in DOMAIN overlaps
            <=> Cardinality({n \in LoadedPolicyFiles : a \in DocActions(pfiles[n].data)}) >= 2

\* the (policy, sid) source entries of an action in find_overlaps' argument
Entries(a) ==
    UNION {{<<policies[i].key, policies[i].val[j].key>> :
              j \in {j \in 1..Len(policies[i].val) : a \in policies[i].val[j].val}} :
           i \in 1..Len(policies)}

\* the unordered pairs of entries of different policies
CrossPairs(a) ==
    {pair \in {{e1, e2} : e1 \in Entries(a), e2 \in Entries(a)} :
        \E e1, e2 \in pair : e1[1] # e2[1]}

\* C6: the list find_overlaps returns for an action holds each unordered pair
\* of the action's (policy, sid) entries of different policies exactly once and
\* no pair of one policy; an action whose entries all belong to one policy has
\* no entry in the result; an empty input yields an empty result.
C6_EveryCrossPairOnce ==
    DetectorRan =>
        /\ \A a \in OverlapActions \cup DOMAIN overlaps :
              IF CrossPairs(a) = {} THEN a \notin DOMAIN overlaps
              ELSE /\ a \in DOMAIN overlaps
                   /\ Len(overlaps[a]) = Cardinality(CrossPairs(a))
                   /\ {{<<t[1], t[2]>>, <<t[3], t[4]>>} : t \in Range(overlaps[a])}
                         = CrossPairs(a)
                   /\ \A t \in Range(overlaps[a]) : t[1] # t[3]
        /\ policies = <<>> => DOMAIN overlaps = {}

\* an action under two Sids in each of two policies (four cross pairs), while
\* its two entries within one policy are not paired
C6_Witness ==
    /\ DetectorRan
    /\ \E a \in DOMAIN overlaps :
          /\ Len(overlaps[a]) = 4
          /\ \E e1, e2 \in Entries(a) : e1 # e2 /\ e1[1] = e2[1]

\* a source file of the running command that exists but does not parse
MalformedSource ==
    IF command = "check-boundaries"
    THEN permDir /\ \E n \in Range(BoundaryFileOrder) : bfiles[n] = MalformedFile
    ELSE \/ tomlState = "malformed"
         \/ tomlState = "ok" /\ \E n \in Range(policiesConfig) : pfiles[n] = MalformedFile

\* the comparison ran over exactly the documents that loaded
ComparedLoaded ==
    /\ ran
    /\ IF command = "check-boundaries"
       THEN Keys(boundaries)
               = SelectSeq(BoundaryFileOrder,
                           LAMBDA n : bfiles[n].exists /\ bfiles[n].parses)
       ELSE Range(Keys(policies)) = LoadedPolicyFiles

\* C7: in both commands a source file that exists but cannot be parsed is a
\* non-fatal failure: the document is left out and the command goes on to run
\* the comparison over the documents that loaded, instead of aborting.
C7_ParseFailureNonFatal ==
    pc = "exited" /\ MalformedSource => ~uncaught /\ ComparedLoaded

HasHigh == \E i \in 1..Len(findings) : findings[i].severity = "high"

\* C8: with permissions/ present and the boundary files loading,
\* check-boundaries exits 1 if and only if a finding is "high" and 0 otherwise,
\* alike in the json and the text mode; without permissions/ it exits 1 before
\* any comparison.
C8_ExitCodeIffHigh ==
    command = "check-boundaries" /\ pc = "exited" =>
        /\ ~permDir => exitCode = 1 /\ ~ran
        /\ permDir /\ ~MalformedSource =>
              /\ ran
              /\ exitCode = (IF HasHigh THEN 1 ELSE 0)

\* the text mode ending with exit code 0 on medium or low findings alone
C8_Witness ==
    /\ command = "check-boundaries"
    /\ pc = "exited"
    /\ output = "text"
    /\ ran
    /\ findings # <<>>
    /\ ~HasHigh
    /\ exitCode = 0

====
